---- MODULE Spec2Model ----
(***************************************************************************)
(* CashClip blog backend (src/register): users, blogs, likes and comments  *)
(* behind four DRF ModelViewSets, with JWT login / logout.                 *)
(*                                                                         *)
(* The database tables are the state; every request handler is one action  *)
(* (permission check, object lookup, validation, write, response).  The    *)
(* two like-creating handlers are also given step by step (existence       *)
(* check, then write) so that two requests can interleave.                 *)
(***************************************************************************)
EXTENDS Integers, FiniteSets, Sequences, TLC

VARIABLES
    users,        \* register_customuser: id -> [username, phone, password, is_superuser]
    blogs,        \* Blog rows      [id, author, title]
    likes,        \* Like rows      [id, user, post]
    comments,     \* Comment rows   [id, user, post, comment]
    lastId,       \* last auto-increment id handed out, per table
    outstanding,  \* refresh tokens issued [jti, user]
    blacklisted,  \* jti of the refresh tokens blacklisted by logout
    access,       \* user ids an access token was issued for
    inflight,     \* like requests between their existence check and their write
    resp          \* the last request and its response

vars == <<users, blogs, likes, comments, lastId, outstanding, blacklisted,
          access, inflight, resp>>

----------------------------------------------------------------------------
(* Bounds *)

MaxUsers == 2
MaxBlogs == 2
MaxLikes == 2
MaxComments == 1
MaxTokens == 1
MaxInflight == 2

UserIds    == 1..MaxUsers
BlogIds    == 1..MaxBlogs
LikeIds    == 1..MaxLikes
CommentIds == 1..MaxComments
TokenIds   == 1..MaxTokens
RequestIds == 1..MaxInflight

(* Request inputs *)
Usernames      == {"ann", "bob"}
Phones         == {"555-1", "555-2"}
PlainPasswords == {"pw1", "pw2"}
Titles         == {"t1", "t2"}
Texts          == {"c1", "c2"}

----------------------------------------------------------------------------
(* HTTP statuses of rest_framework.status used by the views *)

HTTP_200_OK == 200
HTTP_201_CREATED == 201
HTTP_204_NO_CONTENT == 204
HTTP_400_BAD_REQUEST == 400
HTTP_401_UNAUTHORIZED == 401
HTTP_403_FORBIDDEN == 403
HTTP_404_NOT_FOUND == 404
\* an exception no handler catches (IntegrityError out of the ORM)
HTTP_500_INTERNAL_SERVER_ERROR == 500

\* request.user of a request that carries no valid access token
AnonymousUser == 0
\* a refresh token string that does not decode
MalformedToken == 0

----------------------------------------------------------------------------
(* Passwords.  A client sends a string: either an ordinary one, or one     *)
(* that happens to be the encoded (hashed) form of an ordinary one.        *)

Plain(p)   == [kind |-> "plain", text |-> p]
Encoded(p) == [kind |-> "encoded", text |-> p]
Passwords  == {Plain(p) : p \in PlainPasswords} \cup {Encoded(p) : p \in PlainPasswords}

\* django.contrib.auth.hashers.make_password, as set_password applies it
make_password(raw) == Encoded(raw.text)

\* check_password: the stored value must be an encoded password whose
\* pre-image is the raw string; a stored string that is no encoded password
\* is matched by nothing.
check_password(raw, stored) ==
    /\ stored.kind = "encoded"
    /\ raw.kind = "plain"
    /\ raw.text = stored.text

----------------------------------------------------------------------------
(* Authentication and permissions *)

\* request.user: the user the bearer token was issued for, when that user
\* still exists
RequestUser(bearer) ==
    IF bearer \in access /\ bearer \in DOMAIN users THEN bearer ELSE AnonymousUser

Bearers == {AnonymousUser} \cup access

IsAuthenticated(user) == user # AnonymousUser

UserViews_get_permissions(action, user) ==
    IF action \in {"create", "login"} THEN TRUE ELSE IsAuthenticated(user)

\* Variant of BlogViews.get_permissions that opens every action
BlogViews_get_permissions_open(action, user) == TRUE

BlogViews_get_permissions(action, user) ==
    IF action = "list" \/ action = "retrieve" THEN TRUE ELSE IsAuthenticated(user)

CommentViews_permission(action, user) == IsAuthenticated(user)

LikeViews_permission(action, user) == IsAuthenticated(user)

\* what a response tells: the handler that answered, the status, and for a
\* handler that got as far as its object, the caller and the object's key;
\* `arg` is the user id in the body of a POST /api/like/
LikeResponse(op, user, status, obj, arg) ==
    [op |-> op, caller |-> user, status |-> status, obj |-> obj, arg |-> arg]

Response(op, user, status, obj) == LikeResponse(op, user, status, obj, 0)

\* the NotAuthenticated response of the permission check, the same for
\* every route
NotAuthenticated == Response("-", AnonymousUser, HTTP_401_UNAUTHORIZED, 0)

\* the Http404 response of get_object, the same for every route
NotFound == Response("-", AnonymousUser, HTTP_404_NOT_FOUND, 0)

Tables == <<users, blogs, likes, comments>>
Tokens == <<outstanding, blacklisted, access>>

\* a handler that returns without writing
Reply(r) ==
    /\ resp' = r
    /\ UNCHANGED <<Tables, Tokens, lastId, inflight>>

NextId(table) == lastId[table] + 1

BlogIdsNow == {b.id : b \in blogs}

----------------------------------------------------------------------------
(* on_delete=models.CASCADE of Blog.author, Like.user, Like.post,          *)
(* Comment.user and Comment.post                                           *)

BlogsOf(uid) == {b.id : b \in {x \in blogs : x.author = uid}}

\* Variant of the cascade that stops at the user's own rows
CascadeUser_own_rows(uid) ==
    /\ users' = [i \in DOMAIN users \ {uid} |-> users[i]]
    /\ blogs' = {b \in blogs : b.author # uid}
    /\ likes' = {l \in likes : l.user # uid}
    /\ comments' = {c \in comments : c.user # uid}

CascadeUser(uid) ==
    /\ users' = [i \in DOMAIN users \ {uid} |-> users[i]]
    /\ blogs' = {b \in blogs : b.author # uid}
    /\ likes' = {l \in likes : l.user # uid /\ l.post \notin BlogsOf(uid)}
    /\ comments' = {c \in comments : c.user # uid /\ c.post \notin BlogsOf(uid)}

CascadeBlog(bid) ==
    /\ blogs' = {b \in blogs : b.id # bid}
    /\ likes' = {l \in likes : l.post # bid}
    /\ comments' = {c \in comments : c.post # bid}
    /\ UNCHANGED users

----------------------------------------------------------------------------
(* UserViews *)

\* the unique=True validators of username and phone; `self` is the row
\* being updated (None on create)
UserSerializer_is_valid(body, self) ==
    /\ \A i \in DOMAIN users \ {self} : users[i].username # body.username
    /\ \A i \in DOMAIN users \ {self} : users[i].phone # body.phone

\* CustomUser.objects.create(**validate_data): the row holds the password
\* string exactly as the client sent it
UserSerializer_create(validate_data) ==
    [username |-> validate_data.username,
     phone    |-> validate_data.phone,
     password |-> validate_data.password,
     is_superuser |-> FALSE]

\* POST /api/user/
UserCreate(bearer, body) ==
    LET user == RequestUser(bearer) IN
    IF ~UserViews_get_permissions("create", user)
    THEN Reply(NotAuthenticated)
    ELSE IF ~UserSerializer_is_valid(body, 0)
    THEN Reply(Response("user_create", AnonymousUser, HTTP_400_BAD_REQUEST, 0))
    ELSE /\ lastId.user < MaxUsers
         /\ users' = (NextId("user") :> UserSerializer_create(body)) @@ users
         /\ lastId' = [lastId EXCEPT !.user = NextId("user")]
         /\ resp' = Response("user_create", AnonymousUser, HTTP_201_CREATED, 0)
         /\ UNCHANGED <<blogs, likes, comments, Tokens, inflight>>

\* manage.py createsuperuser / the admin site: UserManager.create_superuser
\* stores make_password(password)
CreateSuperuser(username, phone, password) ==
    /\ lastId.user < MaxUsers
    /\ UserSerializer_is_valid([username |-> username, phone |-> phone], 0)
    /\ users' = (NextId("user") :>
                    [username |-> username, phone |-> phone,
                     password |-> make_password(password),
                     is_superuser |-> TRUE]) @@ users
    /\ lastId' = [lastId EXCEPT !.user = NextId("user")]
    /\ UNCHANGED <<blogs, likes, comments, Tokens, inflight, resp>>

\* django.contrib.auth.authenticate(username=, password=): the ids of the
\* users it returns (at most one, usernames being unique)
authenticate(username, password) ==
    {i \in DOMAIN users :
        /\ users[i].username = username
        /\ check_password(password, users[i].password)}

\* POST /api/user/login/
Login(bearer, username, password) ==
    LET user  == RequestUser(bearer)
        found == authenticate(username, password)
    IN
    IF ~UserViews_get_permissions("login", user)
    THEN Reply(NotAuthenticated)
    ELSE IF found # {}
    THEN \E uid \in found :
         /\ lastId.token < MaxTokens
         /\ outstanding' = outstanding \cup {[jti |-> NextId("token"), user |-> uid]}
         /\ access' = access \cup {uid}
         /\ lastId' = [lastId EXCEPT !.token = NextId("token")]
         /\ resp' = Response("login", uid, HTTP_200_OK, NextId("token"))
         /\ UNCHANGED <<Tables, blacklisted, inflight>>
    ELSE Reply(Response("login", AnonymousUser, HTTP_401_UNAUTHORIZED, 0))

\* the token_blacklist app is installed ("requires blacklisting enabled")
BlacklistEnabled == TRUE

\* Variant of the token check that does not consult the blacklist
RefreshToken_ok_no_blacklist(token) ==
    token \in {t.jti : t \in outstanding}

\* RefreshToken(refresh_token): decodes and verifies; raises TokenError for
\* a string that is no token we signed or for a blacklisted token
RefreshToken_ok(token) ==
    /\ token \in {t.jti : t \in outstanding}
    /\ token \notin blacklisted

\* POST /api/user/logout/
Logout(bearer, token) ==
    LET user == RequestUser(bearer) IN
    IF ~UserViews_get_permissions("logout", user)
    THEN Reply(NotAuthenticated)
    ELSE IF RefreshToken_ok(token) /\ BlacklistEnabled
    THEN /\ blacklisted' = blacklisted \cup {token}
         /\ resp' = Response("logout", user, HTTP_200_OK, token)
         /\ UNCHANGED <<Tables, lastId, outstanding, access, inflight>>
    ELSE Reply(Response("logout", user, HTTP_400_BAD_REQUEST, token))

\* PATCH /api/user/{id}/ with a phone number
UserUpdate(bearer, id, phone) ==
    LET user == RequestUser(bearer) IN
    IF ~UserViews_get_permissions("partial_update", user)
    THEN Reply(NotAuthenticated)
    ELSE IF id \notin DOMAIN users
    THEN Reply(NotFound)
    ELSE IF ~UserSerializer_is_valid([username |-> users[id].username, phone |-> phone], id)
    THEN Reply(Response("user_update", AnonymousUser, HTTP_400_BAD_REQUEST, 0))
    ELSE /\ users' = [users EXCEPT ![id].phone = phone]
         /\ resp' = Response("user_update", AnonymousUser, HTTP_200_OK, 0)
         /\ UNCHANGED <<blogs, likes, comments, Tokens, lastId, inflight>>

\* DELETE /api/user/{id}/
UserDestroy(bearer, id) ==
    LET user == RequestUser(bearer) IN
    IF ~UserViews_get_permissions("destroy", user)
    THEN Reply(NotAuthenticated)
    ELSE IF id \notin DOMAIN users
    THEN Reply(NotFound)
    ELSE /\ CascadeUser(id)
         /\ resp' = Response("user_destroy", AnonymousUser, HTTP_204_NO_CONTENT, 0)
         /\ UNCHANGED <<Tokens, lastId, inflight>>

\* GET /api/user/ and GET /api/user/{id}/
UserRead(bearer, action, id) ==
    LET user == RequestUser(bearer) IN
    IF ~UserViews_get_permissions(action, user)
    THEN Reply(NotAuthenticated)
    ELSE IF action = "retrieve" /\ id \notin DOMAIN users
    THEN Reply(NotFound)
    ELSE Reply(Response("read", AnonymousUser, HTTP_200_OK, 0))

----------------------------------------------------------------------------
(* BlogViews *)

TitleMaxLength == 50
CommentMaxLength == 100

\* BlogSerializer (fields = "__all__"): author is a required, writable
\* primary key; title a CharField(max_length=50)
BlogSerializer_is_valid(body) ==
    /\ body.author \in DOMAIN users
    /\ Len(body.title) <= TitleMaxLength

\* POST /api/blog/ ; perform_create saves with author=request.user
BlogCreate(bearer, body) ==
    LET user == RequestUser(bearer) IN
    IF ~BlogViews_get_permissions("create", user)
    THEN Reply(NotAuthenticated)
    ELSE IF ~BlogSerializer_is_valid(body)
    THEN Reply(Response("blog_create", AnonymousUser, HTTP_400_BAD_REQUEST, 0))
    ELSE /\ lastId.blog < MaxBlogs
         /\ blogs' = blogs \cup
                {[id |-> NextId("blog"), author |-> user, title |-> body.title]}
         /\ lastId' = [lastId EXCEPT !.blog = NextId("blog")]
         /\ resp' = Response("blog_create", AnonymousUser, HTTP_201_CREATED, 0)
         /\ UNCHANGED <<users, likes, comments, Tokens, inflight>>

\* PUT /api/blog/{id}/ ; the inherited update saves the body as validated
BlogUpdate(bearer, id, body) ==
    LET user == RequestUser(bearer) IN
    IF ~BlogViews_get_permissions("update", user)
    THEN Reply(NotAuthenticated)
    ELSE IF id \notin BlogIdsNow
    THEN Reply(NotFound)
    ELSE IF ~BlogSerializer_is_valid(body)
    THEN Reply(Response("blog_update", AnonymousUser, HTTP_400_BAD_REQUEST, 0))
    ELSE /\ blogs' = {b \in blogs : b.id # id} \cup
                {[id |-> id, author |-> body.author, title |-> body.title]}
         /\ resp' = Response("blog_update", AnonymousUser, HTTP_200_OK, 0)
         /\ UNCHANGED <<users, likes, comments, Tokens, lastId, inflight>>

\* DELETE /api/blog/{id}/
BlogDestroy(bearer, id) ==
    LET user == RequestUser(bearer) IN
    IF ~BlogViews_get_permissions("destroy", user)
    THEN Reply(NotAuthenticated)
    ELSE IF id \notin BlogIdsNow
    THEN Reply(NotFound)
    ELSE /\ CascadeBlog(id)
         /\ resp' = Response("blog_destroy", AnonymousUser, HTTP_204_NO_CONTENT, 0)
         /\ UNCHANGED <<Tokens, lastId, inflight>>

\* GET /api/blog/, /api/blog/{id}/, /api/blog/{id}/comments/, /api/blog/{id}/likes/
BlogRead(bearer, action, id) ==
    LET user == RequestUser(bearer) IN
    IF ~BlogViews_get_permissions(action, user)
    THEN Reply(NotAuthenticated)
    ELSE IF action # "list" /\ id \notin BlogIdsNow
    THEN Reply(NotFound)
    ELSE Reply(Response("read", AnonymousUser, HTTP_200_OK, 0))

----------------------------------------------------------------------------
(* The Like table *)

\* Variant of like_exists that forgets the user filter
like_exists_any_user(user, post) ==
    \E l \in likes : l.post = post

\* Like.objects.filter(user=user, post=post).exists()
like_exists(user, post) ==
    \E l \in likes : l.user = user /\ l.post = post

\* unique_together = ('user', 'post'), as the database enforces it on a row
\* written with key `self`
Like_unique_together(self, user, post) ==
    \A l \in likes : l.id # self => ~(l.user = user /\ l.post = post)

\* Variant of Like_constraints without unique_together
Like_constraints_not_unique(self, user, post) ==
    /\ user \in DOMAIN users
    /\ post \in BlogIdsNow

\* what the database checks when a Like row is written: the uniqueness
\* constraint and the two foreign keys
Like_constraints(self, user, post) ==
    /\ Like_unique_together(self, user, post)
    /\ user \in DOMAIN users
    /\ post \in BlogIdsNow

\* Like.objects.create(user=, post=) / serializer.save(): the INSERT, which
\* raises IntegrityError when a constraint fails.  `op` and `arg` name the
\* request for the response.
Like_create(op, arg, user, post) ==
    IF Like_constraints(0, user, post)
    THEN /\ lastId.like < MaxLikes
         /\ likes' = likes \cup {[id |-> NextId("like"), user |-> user, post |-> post]}
         /\ lastId' = [lastId EXCEPT !.like = NextId("like")]
         /\ resp' = LikeResponse(op, user, HTTP_201_CREATED, post, arg)
    ELSE /\ resp' = LikeResponse(op, user, HTTP_500_INTERNAL_SERVER_ERROR, post, arg)
         /\ UNCHANGED <<likes, lastId>>

\* lines 82-89 of BlogViews.like, given the outcome of the existence check
BlogViews_like_write(user, post, exists) ==
    IF exists
    THEN /\ likes' = {l \in likes : ~(l.user = user /\ l.post = post)}
         /\ resp' = Response("like", user, HTTP_200_OK, post)
         /\ UNCHANGED lastId
    ELSE Like_create("like", 0, user, post)

\* POST /api/blog/{id}/like/ served without interruption
BlogLike(bearer, id) ==
    LET user == RequestUser(bearer) IN
    IF ~BlogViews_get_permissions("like", user)
    THEN Reply(NotAuthenticated)
    ELSE IF id \notin BlogIdsNow
    THEN Reply(NotFound)
    ELSE /\ BlogViews_like_write(user, id, like_exists(user, id))
         /\ UNCHANGED <<users, blogs, comments, Tokens, inflight>>

----------------------------------------------------------------------------
(* LikeViews *)

\* LikeSerializer (fields = "__all__"): user and post are required primary
\* keys of existing rows, and the UniqueTogetherValidator looks for another
\* row with the body's (user, post)
LikeSerializer_is_valid(body, self) ==
    /\ body.user \in DOMAIN users
    /\ body.post \in BlogIdsNow
    /\ Like_unique_together(self, body.user, body.post)

\* Variant of the duplicate check that looks up the body's user
LikeViews_create_exists_body_user(user, body) ==
    \E l \in likes : l.user = body.user /\ l.post = body.post

\* the duplicate check of LikeViews.create (lines 122-131)
LikeViews_create_exists(user, body) == like_exists(user, body.post)

\* POST /api/like/ served without interruption
LikeCreate(bearer, body) ==
    LET user == RequestUser(bearer) IN
    IF ~LikeViews_permission("create", user)
    THEN Reply(NotAuthenticated)
    ELSE IF LikeViews_create_exists(user, body)
    THEN Reply(LikeResponse("like_create", user, HTTP_400_BAD_REQUEST, body.post, body.user))
    ELSE IF ~LikeSerializer_is_valid(body, 0)
    THEN Reply(LikeResponse("like_create", user, HTTP_400_BAD_REQUEST, body.post, body.user))
    ELSE /\ Like_create("like_create", body.user, user, body.post)
         /\ UNCHANGED <<users, blogs, comments, Tokens, inflight>>

\* PUT /api/like/{id}/
LikeUpdate(bearer, id, body) ==
    LET user == RequestUser(bearer) IN
    IF ~LikeViews_permission("update", user)
    THEN Reply(NotAuthenticated)
    ELSE IF id \notin {l.id : l \in likes}
    THEN Reply(NotFound)
    ELSE IF ~LikeSerializer_is_valid(body, id)
    THEN Reply(Response("like_update", AnonymousUser, HTTP_400_BAD_REQUEST, 0))
    ELSE IF ~Like_constraints(id, body.user, body.post)
    THEN Reply(Response("like_update", AnonymousUser, HTTP_500_INTERNAL_SERVER_ERROR, 0))
    ELSE /\ likes' = {l \in likes : l.id # id} \cup
                {[id |-> id, user |-> body.user, post |-> body.post]}
         /\ resp' = Response("like_update", AnonymousUser, HTTP_200_OK, 0)
         /\ UNCHANGED <<users, blogs, comments, Tokens, lastId, inflight>>

\* DELETE /api/like/{id}/
LikeDestroy(bearer, id) ==
    LET user == RequestUser(bearer) IN
    IF ~LikeViews_permission("destroy", user)
    THEN Reply(NotAuthenticated)
    ELSE IF id \notin {l.id : l \in likes}
    THEN Reply(NotFound)
    ELSE /\ likes' = {l \in likes : l.id # id}
         /\ resp' = Response("like_destroy", AnonymousUser, HTTP_204_NO_CONTENT, 0)
         /\ UNCHANGED <<users, blogs, comments, Tokens, lastId, inflight>>

\* GET /api/like/ and GET /api/like/{id}/
LikeRead(bearer, action, id) ==
    LET user == RequestUser(bearer) IN
    IF ~LikeViews_permission(action, user)
    THEN Reply(NotAuthenticated)
    ELSE IF action = "retrieve" /\ id \notin {l.id : l \in likes}
    THEN Reply(NotFound)
    ELSE Reply(Response("read", AnonymousUser, HTTP_200_OK, 0))

----------------------------------------------------------------------------
(* The two like-creating handlers, query by query.  A request that passed  *)
(* its existence check waits in `inflight` for its write; other requests   *)
(* run in between.                                                         *)

Free(r) == r \notin DOMAIN inflight

\* a new request takes the lowest free slot
Slot(r) == Free(r) /\ \A x \in RequestIds : x < r => ~Free(x)

Park(r, req) == inflight' = (r :> req) @@ inflight

Done(r) == inflight' = [x \in DOMAIN inflight \ {r} |-> inflight[x]]

\* BlogViews.like up to line 80: permission, get_object, exists()
BlogLikeCheck(r, bearer, id) ==
    LET user == RequestUser(bearer) IN
    /\ Slot(r)
    /\ IF ~BlogViews_get_permissions("like", user)
       THEN Reply(NotAuthenticated)
       ELSE IF id \notin BlogIdsNow
       THEN Reply(NotFound)
       ELSE /\ Park(r, [op |-> "like", user |-> user, post |-> id,
                        body_user |-> user, exists |-> like_exists(user, id)])
            /\ UNCHANGED <<Tables, Tokens, lastId, resp>>

\* BlogViews.like from line 82: the delete or the create
BlogLikeWrite(r) ==
    /\ ~Free(r)
    /\ inflight[r].op = "like"
    /\ BlogViews_like_write(inflight[r].user, inflight[r].post, inflight[r].exists)
    /\ Done(r)
    /\ UNCHANGED <<users, blogs, comments, Tokens>>

\* LikeViews.create up to line 131: permission and the duplicate check
LikeCreateCheck(r, bearer, body) ==
    LET user == RequestUser(bearer) IN
    /\ Slot(r)
    /\ IF ~LikeViews_permission("create", user)
       THEN Reply(NotAuthenticated)
       ELSE IF LikeViews_create_exists(user, body)
       THEN Reply(LikeResponse("like_create", user, HTTP_400_BAD_REQUEST, body.post, body.user))
       ELSE /\ Park(r, [op |-> "like_create", user |-> user, post |-> body.post,
                        body_user |-> body.user, exists |-> FALSE])
            /\ UNCHANGED <<Tables, Tokens, lastId, resp>>

ParkedBody(r) == [user |-> inflight[r].body_user, post |-> inflight[r].post]

\* super().create(): serializer.is_valid(raise_exception=True)
LikeCreateValidate(r) ==
    /\ ~Free(r)
    /\ inflight[r].op = "like_create"
    /\ IF LikeSerializer_is_valid(ParkedBody(r), 0)
       THEN /\ inflight' = [inflight EXCEPT ![r].op = "like_save"]
            /\ UNCHANGED <<Tables, Tokens, lastId, resp>>
       ELSE /\ resp' = LikeResponse("like_create", inflight[r].user,
                                    HTTP_400_BAD_REQUEST, inflight[r].post,
                                    inflight[r].body_user)
            /\ Done(r)
            /\ UNCHANGED <<Tables, Tokens, lastId>>

\* super().create(): perform_create, serializer.save(user=request.user)
LikeCreateSave(r) ==
    /\ ~Free(r)
    /\ inflight[r].op = "like_save"
    /\ Like_create("like_create", inflight[r].body_user, inflight[r].user,
                   inflight[r].post)
    /\ Done(r)
    /\ UNCHANGED <<users, blogs, comments, Tokens>>

----------------------------------------------------------------------------
(* CommentViews *)

CommentIdsNow == {c.id : c \in comments}

CommentOf(id) == CHOOSE c \in comments : c.id = id

\* CommentSerializer (fields = "__all__"): user and post are required,
\* writable primary keys; comment a CharField(max_length=100)
CommentSerializer_is_valid(body) ==
    /\ body.user \in DOMAIN users
    /\ body.post \in BlogIdsNow
    /\ Len(body.comment) <= CommentMaxLength

\* POST /api/comment/ ; perform_create saves with user=request.user
CommentCreate(bearer, body) ==
    LET user == RequestUser(bearer) IN
    IF ~CommentViews_permission("create", user)
    THEN Reply(NotAuthenticated)
    ELSE IF ~CommentSerializer_is_valid(body)
    THEN Reply(Response("comment_create", AnonymousUser, HTTP_400_BAD_REQUEST, 0))
    ELSE /\ lastId.comment < MaxComments
         /\ comments' = comments \cup
                {[id |-> NextId("comment"), user |-> user, post |-> body.post,
                  comment |-> body.comment]}
         /\ lastId' = [lastId EXCEPT !.comment = NextId("comment")]
         /\ resp' = Response("comment_create", AnonymousUser, HTTP_201_CREATED, 0)
         /\ UNCHANGED <<users, blogs, likes, Tokens, inflight>>

\* Variant of the owner test that lets everyone through
CommentViews_is_owner_anyone(comment, user) == TRUE

\* the owner test of update and destroy
CommentViews_is_owner(comment, user) == comment.user = user

\* super().update(): the serializer saves every field of the validated body
CommentSerializer_update(comment, body) ==
    [id |-> comment.id, user |-> body.user, post |-> body.post,
     comment |-> body.comment]

\* PUT /api/comment/{id}/
CommentUpdate(bearer, id, body) ==
    LET user == RequestUser(bearer) IN
    IF ~CommentViews_permission("update", user)
    THEN Reply(NotAuthenticated)
    ELSE IF id \notin CommentIdsNow
    THEN Reply(NotFound)
    ELSE IF ~CommentViews_is_owner(CommentOf(id), user)
    THEN Reply(Response("comment_update", user, HTTP_403_FORBIDDEN, id))
    ELSE IF ~CommentSerializer_is_valid(body)
    THEN Reply(Response("comment_update", AnonymousUser, HTTP_400_BAD_REQUEST, 0))
    ELSE /\ comments' = {c \in comments : c.id # id} \cup
                {CommentSerializer_update(CommentOf(id), body)}
         /\ resp' = Response("comment_update", user, HTTP_200_OK, id)
         /\ UNCHANGED <<users, blogs, likes, Tokens, lastId, inflight>>

\* DELETE /api/comment/{id}/
CommentDestroy(bearer, id) ==
    LET user == RequestUser(bearer) IN
    IF ~CommentViews_permission("destroy", user)
    THEN Reply(NotAuthenticated)
    ELSE IF id \notin CommentIdsNow
    THEN Reply(NotFound)
    ELSE IF ~CommentViews_is_owner(CommentOf(id), user)
    THEN Reply(Response("comment_destroy", user, HTTP_403_FORBIDDEN, id))
    ELSE /\ comments' = {c \in comments : c.id # id}
         /\ resp' = Response("comment_destroy", user, HTTP_204_NO_CONTENT, id)
         /\ UNCHANGED <<users, blogs, likes, Tokens, lastId, inflight>>

\* GET /api/comment/ and GET /api/comment/{id}/
CommentRead(bearer, action, id) ==
    LET user == RequestUser(bearer) IN
    IF ~CommentViews_permission(action, user)
    THEN Reply(NotAuthenticated)
    ELSE IF action = "retrieve" /\ id \notin CommentIdsNow
    THEN Reply(NotFound)
    ELSE Reply(Response("read", AnonymousUser, HTTP_200_OK, 0))

----------------------------------------------------------------------------
(* The identity store on its own, from an empty database *)

NoResponse == Response("none", AnonymousUser, 0, 0)

Init ==
    /\ users = <<>>
    /\ blogs = {}
    /\ likes = {}
    /\ comments = {}
    /\ lastId = [user |-> 0, blog |-> 0, like |-> 0, comment |-> 0, token |-> 0]
    /\ outstanding = {}
    /\ blacklisted = {}
    /\ access = {}
    /\ inflight = <<>>
    /\ resp = NoResponse

UserBodies == [username : Usernames, phone : Phones, password : Passwords]

NextAuth ==
    \/ \E b \in Bearers, body \in UserBodies : UserCreate(b, body)
    \/ \E u \in Usernames, ph \in Phones, p \in PlainPasswords :
          CreateSuperuser(u, ph, Plain(p))
    \/ \E b \in Bearers, u \in Usernames, p \in Passwords : Login(b, u, p)
    \/ \E b \in Bearers, t \in {MalformedToken} \cup TokenIds : Logout(b, t)
    \/ \E b \in Bearers, id \in UserIds, ph \in Phones : UserUpdate(b, id, ph)
    \/ \E b \in Bearers, id \in UserIds : UserDestroy(b, id)
    \/ \E b \in Bearers, a \in {"list", "retrieve"}, id \in UserIds : UserRead(b, a, id)

SpecAuth == Init /\ [][NextAuth]_vars

----------------------------------------------------------------------------
(* The whole API, every request served without interruption, from a        *)
(* database that holds two accounts made by createsuperuser, both logged   *)
(* in on one refresh token each                                            *)

Accounts ==
    (1 :> [username |-> "ann", phone |-> "555-1",
           password |-> make_password(Plain("pw1")), is_superuser |-> TRUE])
    @@ (2 :> [username |-> "bob", phone |-> "555-2",
              password |-> make_password(Plain("pw2")), is_superuser |-> TRUE])

InitStore ==
    /\ users = Accounts
    /\ blogs = {}
    /\ likes = {}
    /\ comments = {}
    /\ lastId = [user |-> 2, blog |-> 0, like |-> 0, comment |-> 0, token |-> 2]
    /\ outstanding = {[jti |-> 1, user |-> 1], [jti |-> 2, user |-> 2]}
    /\ blacklisted = {}
    /\ access = {1, 2}
    /\ inflight = <<>>
    /\ resp = NoResponse

BlogBodies    == [title : Titles, author : UserIds]
LikeBodies    == [user : UserIds, post : BlogIds]
CommentBodies == [user : UserIds, post : BlogIds, comment : Texts]

\* likes, and what deletes their users and posts, each request served
\* without interruption
NextLikes ==
    \/ \E b \in Bearers, body \in BlogBodies : BlogCreate(b, body)
    \/ \E b \in Bearers, id \in BlogIds : BlogDestroy(b, id)
    \/ \E b \in Bearers, id \in UserIds : UserDestroy(b, id)
    \/ \E b \in Bearers, id \in BlogIds : BlogLike(b, id)
    \/ \E b \in Bearers, body \in LikeBodies : LikeCreate(b, body)
    \/ \E b \in Bearers, id \in LikeIds, body \in LikeBodies : LikeUpdate(b, id, body)
    \/ \E b \in Bearers, id \in LikeIds : LikeDestroy(b, id)

SpecLikes == InitStore /\ [][NextLikes]_vars

\* the same requests, the two like-creating ones interleaved, from a
\* database where each of the two users has written a post
InitRace ==
    /\ users = Accounts
    /\ blogs = {[id |-> 1, author |-> 1, title |-> "t1"],
                [id |-> 2, author |-> 2, title |-> "t2"]}
    /\ likes = {}
    /\ comments = {}
    /\ lastId = [user |-> 2, blog |-> 2, like |-> 0, comment |-> 0, token |-> 2]
    /\ outstanding = {[jti |-> 1, user |-> 1], [jti |-> 2, user |-> 2]}
    /\ blacklisted = {}
    /\ access = {1, 2}
    /\ inflight = <<>>
    /\ resp = NoResponse

NextRace ==
    \/ \E b \in Bearers, id \in BlogIds : BlogDestroy(b, id)
    \/ \E b \in Bearers, id \in UserIds : UserDestroy(b, id)
    \/ \E b \in Bearers, id \in LikeIds, body \in LikeBodies : LikeUpdate(b, id, body)
    \/ \E b \in Bearers, id \in LikeIds : LikeDestroy(b, id)
    \/ \E r \in RequestIds, b \in Bearers, id \in BlogIds : BlogLikeCheck(r, b, id)
    \/ \E r \in RequestIds : BlogLikeWrite(r)
    \/ \E r \in RequestIds, b \in Bearers, body \in LikeBodies : LikeCreateCheck(r, b, body)
    \/ \E r \in RequestIds : LikeCreateValidate(r)
    \/ \E r \in RequestIds : LikeCreateSave(r)

SpecRace == InitRace /\ [][NextRace]_vars

\* comments, and what deletes their users and posts
NextComments ==
    \/ \E b \in Bearers, body \in BlogBodies : BlogCreate(b, body)
    \/ \E b \in Bearers, id \in BlogIds : BlogDestroy(b, id)
    \/ \E b \in Bearers, id \in UserIds : UserDestroy(b, id)
    \/ \E b \in Bearers, body \in CommentBodies : CommentCreate(b, body)
    \/ \E b \in Bearers, id \in CommentIds, body \in CommentBodies :
          CommentUpdate(b, id, body)
    \/ \E b \in Bearers, id \in CommentIds : CommentDestroy(b, id)

SpecComments == InitStore /\ [][NextComments]_vars

\* every handler that writes a blog, like or comment row, and the deletion
\* of users
Next ==
    \/ \E b \in Bearers, body \in BlogBodies : BlogCreate(b, body)
    \/ \E b \in Bearers, id \in BlogIds, body \in BlogBodies : BlogUpdate(b, id, body)
    \/ \E b \in Bearers, id \in BlogIds : BlogDestroy(b, id)
    \/ \E b \in Bearers, id \in BlogIds : BlogLike(b, id)
    \/ \E b \in Bearers, body \in LikeBodies : LikeCreate(b, body)
    \/ \E b \in Bearers, id \in LikeIds, body \in LikeBodies : LikeUpdate(b, id, body)
    \/ \E b \in Bearers, id \in LikeIds : LikeDestroy(b, id)
    \/ \E b \in Bearers, body \in CommentBodies : CommentCreate(b, body)
    \/ \E b \in Bearers, id \in CommentIds, body \in CommentBodies :
          CommentUpdate(b, id, body)
    \/ \E b \in Bearers, id \in CommentIds : CommentDestroy(b, id)
    \/ \E b \in Bearers, id \in UserIds : UserDestroy(b, id)

Spec == InitStore /\ [][Next]_vars

\* Every handler of the API called without a token, while the two users
\* write posts, likes and comments
NextAnon ==
    \/ \E b \in access, body \in BlogBodies : BlogCreate(b, body)
    \/ \E b \in access, id \in BlogIds : BlogLike(b, id)
    \/ \E b \in access, body \in CommentBodies : CommentCreate(b, body)
    \/ \E body \in UserBodies : UserCreate(AnonymousUser, body)
    \/ \E u \in Usernames, p \in Passwords : Login(AnonymousUser, u, p)
    \/ \E t \in {MalformedToken} \cup {x.jti : x \in outstanding} :
          Logout(AnonymousUser, t)
    \/ \E id \in UserIds, ph \in Phones : UserUpdate(AnonymousUser, id, ph)
    \/ \E id \in UserIds : UserDestroy(AnonymousUser, id)
    \/ \E a \in {"list", "retrieve"}, id \in UserIds : UserRead(AnonymousUser, a, id)
    \/ \E body \in BlogBodies : BlogCreate(AnonymousUser, body)
    \/ \E id \in BlogIds, body \in BlogBodies : BlogUpdate(AnonymousUser, id, body)
    \/ \E id \in BlogIds : BlogDestroy(AnonymousUser, id)
    \/ \E a \in {"list", "retrieve", "comments", "likes"}, id \in BlogIds :
          BlogRead(AnonymousUser, a, id)
    \/ \E id \in BlogIds : BlogLike(AnonymousUser, id)
    \/ \E body \in LikeBodies : LikeCreate(AnonymousUser, body)
    \/ \E id \in LikeIds, body \in LikeBodies : LikeUpdate(AnonymousUser, id, body)
    \/ \E id \in LikeIds : LikeDestroy(AnonymousUser, id)
    \/ \E a \in {"list", "retrieve"}, id \in LikeIds : LikeRead(AnonymousUser, a, id)
    \/ \E body \in CommentBodies : CommentCreate(AnonymousUser, body)
    \/ \E id \in CommentIds, body \in CommentBodies :
          CommentUpdate(AnonymousUser, id, body)
    \/ \E id \in CommentIds : CommentDestroy(AnonymousUser, id)
    \/ \E a \in {"list", "retrieve"}, id \in CommentIds :
          CommentRead(AnonymousUser, a, id)

SpecAnon == InitStore /\ [][NextAnon]_vars

----------------------------------------------------------------------------
(* Properties *)

LikesOf(ls, u, p) == {l \in ls : l.user = u /\ l.post = p}

\* b carries a valid access token
Authenticated(b) == b \in access /\ b \in DOMAIN users

Exists(rows, id) == \E x \in rows : x.id = id

RowOf(rows, id) == CHOOSE x \in rows : x.id = id

\* C1: in every reachable state, whatever the like requests, user deletions
\* and post deletions that led to it and however they interleaved, there is
\* at most one Like row for any (user, post) pair.
C1_AtMostOneLikePerUserPost ==
    \A a \in likes, b \in likes : (a.user = b.user /\ a.post = b.post) => a = b

\* a toggle lost the race: its INSERT was refused, and the pair has its one row
C1_Witness ==
    /\ resp.op = "like"
    /\ resp.status = HTTP_500_INTERNAL_SERVER_ERROR
    /\ Cardinality(LikesOf(likes, resp.caller, resp.obj)) = 1

\* C5: a like request that finds the pair's Like already written by a
\* concurrent request ends as a handled conflict, never as a storage error,
\* and at most one row exists for the pair.
C5_RaceLoserHandled ==
    (resp.op \in {"like", "like_create"} /\ LikesOf(likes, resp.caller, resp.obj) # {})
        => /\ resp.status # HTTP_500_INTERNAL_SERVER_ERROR
           /\ Cardinality(LikesOf(likes, resp.caller, resp.obj)) = 1

\* C2: a toggle by an authenticated user on an existing post, served without
\* interruption: with no Like of that user on the post it creates exactly
\* one and returns 201, otherwise it deletes it and returns 200; all other
\* Like rows stay; and a toggle right after a toggle of the same user and
\* post that returned 201 returns 200 and leaves the user with no Like there.
C2_ToggleLike ==
    [][\A b \in Bearers, id \in BlogIds :
        (BlogLike(b, id) /\ Authenticated(b) /\ Exists(blogs, id)) =>
            /\ IF LikesOf(likes, b, id) = {}
               THEN /\ resp'.status = HTTP_201_CREATED
                    /\ Cardinality(LikesOf(likes', b, id)) = 1
               ELSE /\ resp'.status = HTTP_200_OK
                    /\ LikesOf(likes', b, id) = {}
            /\ likes' \ LikesOf(likes', b, id) = likes \ LikesOf(likes, b, id)
            /\ (resp.op = "like" /\ resp.caller = b /\ resp.obj = id
                    /\ resp.status = HTTP_201_CREATED)
                 => (resp'.status = HTTP_200_OK /\ LikesOf(likes', b, id) = {})
      ]_vars

\* a toggle removed the caller's like while another user's like is in place
C2_Witness ==
    /\ resp.op = "like"
    /\ resp.status = HTTP_200_OK
    /\ LikesOf(likes, resp.caller, resp.obj) = {}
    /\ \E l \in likes : l.post = resp.obj /\ l.user # resp.caller

\* C3: POST /api/like/ by a caller who already has a Like on the body's post
\* returns 400 and leaves the Like rows as they were, whatever user id the
\* body carries.
C3_DuplicateLikeCreate ==
    [][\A b \in Bearers, body \in LikeBodies :
        (LikeCreate(b, body) /\ Authenticated(b) /\ LikesOf(likes, b, body.post) # {})
            => (resp'.status = HTTP_400_BAD_REQUEST /\ likes' = likes)
      ]_vars

\* the duplicate was refused although the body named another user
C3_Witness ==
    /\ resp.op = "like_create"
    /\ resp.status = HTTP_400_BAD_REQUEST
    /\ resp.arg # resp.caller
    /\ resp.arg \in DOMAIN users
    /\ LikesOf(likes, resp.caller, resp.obj) # {}
    /\ LikesOf(likes, resp.arg, resp.obj) = {}

ValidCommentBody(body) ==
    /\ body.user \in DOMAIN users
    /\ Exists(blogs, body.post)
    /\ body.comment \in Texts

\* the comment claim, with the status the owner's delete answers
CommentOwnership(deleted) ==
    \A b \in Bearers, id \in CommentIds :
        (Authenticated(b) /\ Exists(comments, id)) =>
            /\ \A body \in CommentBodies :
                 CommentUpdate(b, id, body) =>
                    IF RowOf(comments, id).user # b
                    THEN resp'.status = HTTP_403_FORBIDDEN /\ comments' = comments
                    ELSE ValidCommentBody(body) =>
                            /\ resp'.status = HTTP_200_OK
                            /\ Exists(comments', id)
                            /\ RowOf(comments', id).comment = body.comment
            /\ CommentDestroy(b, id) =>
                    IF RowOf(comments, id).user # b
                    THEN resp'.status = HTTP_403_FORBIDDEN /\ comments' = comments
                    ELSE resp'.status = deleted /\ ~Exists(comments', id)

\* C4 as claimed: update or delete of a comment by an authenticated
\* non-owner returns 403 and leaves the comment unchanged; by the owner it
\* returns 200 and takes effect.
C4_OwnerGets200 == [][CommentOwnership(HTTP_200_OK)]_vars

\* C4 amended: as claimed for the non-owner and for the owner's (valid)
\* update; the owner's delete returns 204 and removes the comment.
C4_OwnerDeleteGets204 == [][CommentOwnership(HTTP_204_NO_CONTENT)]_vars

\* a non-owner was refused and the comment is still there, still the owner's
C4_Witness ==
    /\ resp.op \in {"comment_update", "comment_destroy"}
    /\ resp.status = HTTP_403_FORBIDDEN
    /\ Exists(comments, resp.obj)
    /\ RowOf(comments, resp.obj).user # resp.caller

\* C9: a created comment is owned by the caller, whatever user the body
\* names, and no step changes the owner or the post of a comment.
C9_OwnerAndPostFixed ==
    [][/\ \A b \in Bearers, body \in CommentBodies :
            CommentCreate(b, body) => \A c \in comments' \ comments : c.user = b
       /\ \A c \in comments, d \in comments' :
            c.id = d.id => (d.user = c.user /\ d.post = c.post)
      ]_vars

\* C7: a blacklisted refresh token stays blacklisted; a logout with it never
\* succeeds again (400 for an authenticated caller) and changes nothing;
\* and access tokens come from login alone, never from a refresh token.
C7_BlacklistedStays ==
    [][/\ blacklisted \subseteq blacklisted'
       /\ \A b \in Bearers, t \in TokenIds :
            (Logout(b, t) /\ t \in blacklisted) =>
                /\ resp'.status # HTTP_200_OK
                /\ Authenticated(b) => resp'.status = HTTP_400_BAD_REQUEST
                /\ UNCHANGED <<outstanding, blacklisted, access>>
       /\ access' # access => resp'.op = "login"
      ]_vars

\* a second logout with a blacklisted token was answered 400
C7_Witness ==
    /\ resp.op = "logout"
    /\ resp.status = HTTP_400_BAD_REQUEST
    /\ resp.obj \in blacklisted

\* C8: for an account made by POST /api/user/, login with its username
\* issues a refresh and an access token bound to its id exactly when the
\* password is the one given at registration; otherwise 401 and no token.
C8_LoginIffRegisteredPassword ==
    [][\A b \in Bearers, u \in Usernames, p \in Passwords, i \in DOMAIN users :
        (Login(b, u, p) /\ users[i].username = u /\ ~users[i].is_superuser) =>
            IF p = users[i].password
            THEN /\ resp'.status = HTTP_200_OK
                 /\ resp'.caller = i
                 /\ i \in access'
                 /\ \E t \in outstanding' \ outstanding : t.user = i
            ELSE /\ resp'.status = HTTP_401_UNAUTHORIZED
                 /\ UNCHANGED <<outstanding, blacklisted, access>>
      ]_vars

\* the step is a request without a valid access token that is none of
\* register, login, list posts, retrieve a post
AnonymousRequest ==
    \/ \E id \in UserIds, ph \in Phones : UserUpdate(AnonymousUser, id, ph)
    \/ \E id \in UserIds : UserDestroy(AnonymousUser, id)
    \/ \E a \in {"list", "retrieve"}, id \in UserIds : UserRead(AnonymousUser, a, id)
    \/ \E t \in {MalformedToken} \cup {x.jti : x \in outstanding} :
          Logout(AnonymousUser, t)
    \/ \E body \in BlogBodies : BlogCreate(AnonymousUser, body)
    \/ \E id \in BlogIds, body \in BlogBodies : BlogUpdate(AnonymousUser, id, body)
    \/ \E id \in BlogIds : BlogDestroy(AnonymousUser, id)
    \/ \E a \in {"comments", "likes"}, id \in BlogIds : BlogRead(AnonymousUser, a, id)
    \/ \E id \in BlogIds : BlogLike(AnonymousUser, id)
    \/ \E body \in LikeBodies : LikeCreate(AnonymousUser, body)
    \/ \E id \in LikeIds, body \in LikeBodies : LikeUpdate(AnonymousUser, id, body)
    \/ \E id \in LikeIds : LikeDestroy(AnonymousUser, id)
    \/ \E a \in {"list", "retrieve"}, id \in LikeIds : LikeRead(AnonymousUser, a, id)
    \/ \E body \in CommentBodies : CommentCreate(AnonymousUser, body)
    \/ \E id \in CommentIds, body \in CommentBodies :
          CommentUpdate(AnonymousUser, id, body)
    \/ \E id \in CommentIds : CommentDestroy(AnonymousUser, id)
    \/ \E a \in {"list", "retrieve"}, id \in CommentIds :
          CommentRead(AnonymousUser, a, id)

\* C6: without a valid access token every request other than register,
\* login and list/retrieve of posts is rejected (401) and leaves users,
\* posts, comments, likes and tokens as they were; list and retrieve of
\* posts are not turned away.
C6_AnonymousRejected ==
    [][/\ AnonymousRequest =>
            /\ resp' = NotAuthenticated
            /\ UNCHANGED <<users, blogs, likes, comments, outstanding, blacklisted, access>>
       /\ \A a \in {"list", "retrieve"}, id \in BlogIds :
            BlogRead(AnonymousUser, a, id) => resp'.status # HTTP_401_UNAUTHORIZED
      ]_vars

\* a request was turned away while every table held rows
C6_Witness ==
    /\ resp = NotAuthenticated
    /\ blogs # {}
    /\ likes # {}
    /\ comments # {}

ReferencesHold(us, bs, ls, cs) ==
    /\ \A b \in bs : b.author \in DOMAIN us
    /\ \A l \in ls : l.user \in DOMAIN us /\ Exists(bs, l.post)
    /\ \A c \in cs : c.user \in DOMAIN us /\ Exists(bs, c.post)

\* C10: before and after every step each Post references an existing user
\* and each Like and Comment an existing user and post; a step that deletes
\* a user or a post removes exactly the rows that referenced it, directly
\* or through a deleted post.
C10_ReferencesAndCascade ==
    [][/\ ReferencesHold(users, blogs, likes, comments)
       /\ ReferencesHold(users', blogs', likes', comments')
       /\ LET goneUsers == DOMAIN users \ DOMAIN users'
              goneBlogs == {b.id : b \in blogs} \ {b.id : b \in blogs'}
          IN  /\ goneUsers # {} =>
                    \A b \in blogs : b \in blogs' <=> b.author \notin goneUsers
              /\ (goneUsers # {} \/ goneBlogs # {}) =>
                    /\ \A l \in likes :
                         l \in likes' <=>
                            (l.user \notin goneUsers /\ l.post \notin goneBlogs)
                    /\ \A c \in comments :
                         c \in comments' <=>
                            (c.user \notin goneUsers /\ c.post \notin goneBlogs)
      ]_vars

\* a user was deleted, and with the user a post that another user had liked
\* and commented: no row is left but the survivor's account
C10_Witness ==
    /\ resp.op = "user_destroy"
    /\ resp.status = HTTP_204_NO_CONTENT
    /\ lastId.like > 0
    /\ lastId.comment > 0
    /\ Cardinality(DOMAIN users) = 1
    /\ blogs = {}
    /\ likes = {}
    /\ comments = {}

====
